---- MODULE Spec2Model ----
(***************************************************************************)
(* Model of the filesan crate: the Mode flag set (src/char_flags.rs), the  *)
(* classification table, the reserved-name lists, `allowed` and            *)
(* `escape_str` (src/lib.rs).                                              *)
(*                                                                         *)
(* Characters are Unicode code points (naturals); strings are sequences of *)
(* code points.  escape_str is modelled both as a step machine (one action *)
(* per stage of the function, one step per loop iteration) and as the      *)
(* operator escape_str built from the same stage operators.                *)
(***************************************************************************)
EXTENDS Naturals, Sequences, FiniteSets

VARIABLES input, esc, mode, p, res, chars, pc

vars == <<input, esc, mode, p, res, chars, pc>>

----------------------------------------------------------------------------
(* Mode flag set, src/char_flags.rs *)

NONE == 0
UNIX == 1
WINDOWS == 2
MAC == 4
ALL == 7
WINDOWS_END == 8

RECURSIVE BitAnd(_, _)
BitAnd(a, b) ==
    IF a = 0 \/ b = 0 THEN 0
    ELSE (IF a % 2 = 1 /\ b % 2 = 1 THEN 1 ELSE 0) + 2 * BitAnd(a \div 2, b \div 2)

RECURSIVE BitOr(_, _)
BitOr(a, b) ==
    IF a = 0 THEN b
    ELSE IF b = 0 THEN a
    ELSE (IF a % 2 = 1 \/ b % 2 = 1 THEN 1 ELSE 0) + 2 * BitOr(a \div 2, b \div 2)

intersects(self, other) == BitAnd(self, other) # 0

contains_swapped(self, other) == BitAnd(self, other) = self

contains(self, other) == BitAnd(self, other) = other

----------------------------------------------------------------------------
(* Classification table, src/lib.rs *)

NON == NONE
WWW == WINDOWS
WWM == BitOr(WINDOWS, MAC)
UWM == BitOr(BitOr(UNIX, WINDOWS), MAC)
WEE == WINDOWS_END

DISALLOWED_CHARS ==
    \* NUL SOH STX ETX  EOT  ENQ  ACK  BEL  BS   TAB  LF   VT   FF   CR   SO
    << UWM, WWW, WWW, WWW, WWW, WWW, WWW, WWW, WWW, WWW, WWW, WWW, WWW, WWW, WWW,
    \* SI DLE DC1  DC2  DC3  DC4  NAK  SYN  ETB  CAN  EM   SUB  ESC  FS   GS
       UWM, WWW, WWW, WWW, WWW, WWW, WWW, WWW, WWW, WWW, WWW, WWW, WWW, WWW, WWW,
    \* RS US  SP   !    "    #    $    %    &    '    (    )    *    +    ,
       WWW, WWW, WEE, NON, WWW, NON, NON, NON, NON, NON, NON, NON, WWW, NON, NON,
    \* - .    /    0    1    2    3    4    5    6    7    8    9    :    ;
       NON, WEE, UWM, NON, NON, NON, NON, NON, NON, NON, NON, NON, NON, WWM, NON,
    \* < =    >    ?    @    A    B    C    D    E    F    G    H    I    J
       WWW, NON, WWW, WWW, NON, NON, NON, NON, NON, NON, NON, NON, NON, NON, NON,
    \* K L    M    N    O    P    Q    R    S    T    U    V    W    X    Y
       NON, NON, NON, NON, NON, NON, NON, NON, NON, NON, NON, NON, NON, NON, NON,
    \* Z [    \    ]    ^    _    `    a    b    c    d    e    f    g    h
       NON, NON, WWW, NON, NON, NON, NON, NON, NON, NON, NON, NON, NON, NON, NON,
    \* i j    k    l    m    n    o    p    q    r    s    t    u    v    w
       NON, NON, NON, NON, NON, NON, NON, NON, NON, NON, NON, NON, NON, NON, NON,
    \* x y    z    {    |    }    ~    DEL
       NON, NON, NON, NON, WWW, NON, NON, NON >>

(* Code points used by the reserved names and by the algorithm. *)
DOT == 46
SPACE == 32

CON == <<67, 79, 78>>
PRN == <<80, 82, 78>>
AUX == <<65, 85, 88>>
NUL == <<78, 85, 76>>
COM == <<67, 79, 77>>
LPT == <<76, 80, 84>>

WINDOWS_RESERVED ==
    <<CON, PRN, AUX, NUL>>
        \o [i \in 1..9 |-> COM \o <<48 + i>>]
        \o [i \in 1..9 |-> LPT \o <<48 + i>>]

UNIX_RESERVED == << <<DOT>>, <<DOT, DOT>> >>

slice_contains(list, s) == \E i \in 1..Len(list) : list[i] = s

----------------------------------------------------------------------------
(* allowed, src/lib.rs *)

allowed_wrapping(c, m) ==
    ~intersects(DISALLOWED_CHARS[(c % Len(DISALLOWED_CHARS)) + 1], m)

allowed(c, m) ==
    LET n == c
    IN  IF n >= Len(DISALLOWED_CHARS) THEN TRUE
        ELSE ~intersects(DISALLOWED_CHARS[n + 1], m)

----------------------------------------------------------------------------
(* format!("{:02X}", c as u32): uppercase hexadecimal, zero-padded to a    *)
(* minimum width of two digits.                                            *)

HexDigit(d) == IF d < 10 THEN 48 + d ELSE 55 + d

RECURSIVE UpperHex(_)
UpperHex(n) ==
    IF n < 16 THEN <<HexDigit(n)>>
    ELSE Append(UpperHex(n \div 16), HexDigit(n % 16))

format_02X(n) ==
    LET h == UpperHex(n)
    IN  IF Len(h) < 2 THEN <<48>> \o h ELSE h

(* str::rsplit_once(delim): split at the last occurrence of delim. *)
rsplit_once(s, delim) ==
    LET I == {i \in 1..Len(s) : s[i] = delim}
    IN  IF I = {} THEN [some |-> FALSE, s |-> <<>>, r |-> <<>>]
        ELSE LET k == CHOOSE i \in I : \A j \in I : j <= i
             IN  [some |-> TRUE,
                  s |-> SubSeq(s, 1, k - 1),
                  r |-> SubSeq(s, k + 1, Len(s))]

----------------------------------------------------------------------------
(* The stages of escape_str, src/lib.rs *)

(* Windows reserved-basename stage.  ret = TRUE is the early return. *)
WindowsReserved(p0, e, m) ==
    IF contains(m, WINDOWS) THEN
        LET sp == rsplit_once(p0, DOT)
        IN  IF sp.some THEN
                IF slice_contains(WINDOWS_RESERVED, sp.s)
                THEN [res |-> <<e>> \o sp.s \o <<DOT>>, p |-> sp.r, ret |-> FALSE]
                ELSE [res |-> <<>>, p |-> p0, ret |-> FALSE]
            ELSE IF slice_contains(WINDOWS_RESERVED, p0)
                THEN [res |-> <<e>> \o p0, p |-> p0, ret |-> TRUE]
                ELSE [res |-> <<>>, p |-> p0, ret |-> FALSE]
    ELSE [res |-> <<>>, p |-> p0, ret |-> FALSE]

(* Unix/macOS reserved-name stage. *)
UnixReserved(r0, p0, e, m) ==
    IF r0 = <<>> /\ intersects(m, BitOr(UNIX, MAC)) /\ slice_contains(UNIX_RESERVED, p0)
    THEN [res |-> <<e>> \o p0, ret |-> TRUE]
    ELSE [res |-> r0, ret |-> FALSE]

(* Body of the per-character loop: what one character appends to res. *)
EscapeChar_inverted(c, e, m) ==
    IF c = e \/ allowed(c, m) THEN <<e>> \o format_02X(c) ELSE <<c>>

EscapeChar(c, e, m) ==
    IF c = e \/ ~allowed(c, m) THEN <<e>> \o format_02X(c) ELSE <<c>>

RECURSIVE EscapeChars(_, _, _)
EscapeChars(s, e, m) ==
    IF s = <<>> THEN <<>>
    ELSE EscapeChar(Head(s), e, m) \o EscapeChars(Tail(s), e, m)

(* Windows trailing-character fixup. *)
TrailingFixup_unconditional(r0, e, m) ==
    IF r0 # <<>> THEN
        LET c == r0[Len(r0)]
            popped == SubSeq(r0, 1, Len(r0) - 1)
        IN  IF ~allowed(c, WINDOWS_END)
            THEN popped \o <<e>> \o format_02X(c)
            ELSE popped \o <<c>>
    ELSE r0

TrailingFixup(r0, e, m) ==
    IF intersects(m, WINDOWS) /\ r0 # <<>> THEN
        LET c == r0[Len(r0)]
            popped == SubSeq(r0, 1, Len(r0) - 1)
        IN  IF ~allowed(c, WINDOWS_END)
            THEN popped \o <<e>> \o format_02X(c)
            ELSE popped \o <<c>>
    ELSE r0

(* escape_str as a function of its arguments. *)
escape_str(p0, e, m) ==
    LET w == WindowsReserved(p0, e, m)
    IN  IF w.ret THEN w.res
        ELSE LET u == UnixReserved(w.res, w.p, e, m)
             IN  IF u.ret THEN u.res
                 ELSE TrailingFixup(u.res \o EscapeChars(w.p, e, m), e, m)

----------------------------------------------------------------------------
(* Inputs of the calls that are explored. *)

MaxLen == 2

\* 0x10 (Windows only), ' ', '.', '/', '0', ':', '_', U+0080, U+0100
Alphabet == {16, SPACE, DOT, 47, 48, 58, 95, 128, 256}

\* '_', '.', '/', U+0100
EscChars == {95, DOT, 47, 256}

Modes == 0..15

Strs(n) == UNION {[1..k -> Alphabet] : k \in 0..n}

InputStems == {<<>>, CON, NUL, LPT \o <<57>>}

Inputs == {st \o s : st \in InputStems, s \in Strs(MaxLen)}

----------------------------------------------------------------------------
(* escape_str as a step machine. *)

Init ==
    /\ input \in Inputs
    /\ esc \in EscChars
    /\ mode \in Modes
    /\ p = input
    /\ res = <<>>
    /\ chars = <<>>
    /\ pc = "windows_reserved"

WindowsReservedStage ==
    /\ pc = "windows_reserved"
    /\ LET w == WindowsReserved(p, esc, mode)
       IN  /\ res' = w.res
           /\ p' = w.p
           /\ pc' = IF w.ret THEN "done" ELSE "unix_reserved"
    /\ UNCHANGED <<input, esc, mode, chars>>

UnixReservedStage ==
    /\ pc = "unix_reserved"
    /\ LET u == UnixReserved(res, p, esc, mode)
       IN  /\ res' = u.res
           /\ pc' = IF u.ret THEN "done" ELSE "chars"
           /\ chars' = IF u.ret THEN chars ELSE p
    /\ UNCHANGED <<input, esc, mode, p>>

EscapeCharStep ==
    /\ pc = "chars"
    /\ chars # <<>>
    /\ res' = res \o EscapeChar(Head(chars), esc, mode)
    /\ chars' = Tail(chars)
    /\ UNCHANGED <<input, esc, mode, p, pc>>

TrailingFixupStage ==
    /\ pc = "chars"
    /\ chars = <<>>
    /\ res' = TrailingFixup(res, esc, mode)
    /\ pc' = "done"
    /\ UNCHANGED <<input, esc, mode, p, chars>>

Next ==
    \/ WindowsReservedStage
    \/ UnixReservedStage
    \/ EscapeCharStep
    \/ TrailingFixupStage

Spec == Init /\ [][Next]_vars

----------------------------------------------------------------------------
(* Helpers of the properties below. *)

Last(s) == s[Len(s)]

Count(s, c) == Cardinality({i \in 1..Len(s) : s[i] = c})

CountSub(s, pat) ==
    Cardinality({i \in 1..Len(s) :
        /\ i + Len(pat) - 1 <= Len(s)
        /\ SubSeq(s, i, i + Len(pat) - 1) = pat})

\* "0123456789ABCDEF"
UpperHexChars == <<48, 49, 50, 51, 52, 53, 54, 55, 56, 57, 65, 66, 67, 68, 69, 70>>

IsHexChar(c) == \E d \in 1..Len(UpperHexChars) : UpperHexChars[d] = c

\* fresh = the escape character followed by exactly two uppercase
\* hexadecimal digits whose value is the code point c
TwoDigitEscape(fresh, e, c) ==
    \E d1, d2 \in 1..Len(UpperHexChars) :
        /\ fresh = <<e, UpperHexChars[d1], UpperHexChars[d2]>>
        /\ 16 * (d1 - 1) + (d2 - 1) = c

InReserved(list, s) == \E i \in 1..Len(list) : list[i] = s

HasDot(s) == \E i \in 1..Len(s) : s[i] = DOT

\* the part of s before its last '.'
StemOf(s) ==
    LET k == CHOOSE i \in 1..Len(s) :
                 s[i] = DOT /\ \A j \in 1..Len(s) : s[j] = DOT => j <= i
    IN  SubSeq(s, 1, k - 1)

AllAllowed(s, m) == \A i \in 1..Len(s) : allowed(s[i], m)

EndsWindowsEnd(s) == s # <<>> /\ Last(s) \in {SPACE, DOT}

ReservedName(s, m) ==
    \/ BitAnd(m, WINDOWS) = WINDOWS /\ InReserved(WINDOWS_RESERVED, s)
    \/ BitAnd(m, UNIX + MAC) # 0 /\ InReserved(UNIX_RESERVED, s)

\* the input with every escape character replaced by its escape sequence
\* and every other character copied
RECURSIVE OnlyEscEscaped(_, _)
OnlyEscEscaped(s, e) ==
    IF s = <<>> THEN <<>>
    ELSE (IF Head(s) = e THEN <<e>> \o format_02X(e) ELSE <<Head(s)>>)
             \o OnlyEscEscaped(Tail(s), e)

----------------------------------------------------------------------------
(* C1: escape_str is injective for a fixed (escape character, mode): two   *)
(* distinct inputs never give the same output.                             *)
C1_Injective ==
    pc = "done" =>
        \A b \in Inputs : b # input => escape_str(b, esc, mode) # res

(* C2: under a mode that contains WINDOWS the returned string never ends   *)
(* in a space or a dot, the early returns included.                        *)
C2_NoTrailingSpaceOrDot ==
    (pc = "done" /\ BitAnd(mode, WINDOWS) = WINDOWS /\ res # <<>>)
        => Last(res) \notin {SPACE, DOT}

(* C3: for a mode that is a subset of ALL and an escape character allowed  *)
(* under it, every character of the output is allowed under the mode.      *)
C3_OutputAllowed ==
    (pc = "done" /\ BitAnd(mode, ALL) = mode /\ allowed(esc, mode))
        => \A i \in 1..Len(res) : allowed(res[i], mode)

C3_Witness ==
    /\ pc = "done"
    /\ mode = ALL
    /\ allowed(esc, mode)
    /\ \E i \in 1..Len(input) : ~allowed(input[i], mode)
    /\ Len(res) > Len(input)

(* C4: under a mode that contains WINDOWS and an escape character allowed  *)
(* under it, the output is not a Windows-reserved name, neither as a whole *)
(* nor as the part before its last dot.                                    *)
C4_NotWindowsReserved ==
    (pc = "done" /\ BitAnd(mode, WINDOWS) = WINDOWS /\ allowed(esc, mode))
        => /\ ~InReserved(WINDOWS_RESERVED, res)
           /\ HasDot(res) => ~InReserved(WINDOWS_RESERVED, StemOf(res))

(* C5: under a mode that intersects UNIX | MAC and an escape character     *)
(* allowed under it, the output is never "." or "..", and for the input    *)
(* "." or ".." it is the escape character followed by the input.           *)
C5_NotUnixReserved ==
    (pc = "done" /\ BitAnd(mode, UNIX + MAC) # 0 /\ allowed(esc, mode))
        => /\ ~InReserved(UNIX_RESERVED, res)
           /\ InReserved(UNIX_RESERVED, input) => res = <<esc>> \o input

(* C6 as stated: an input whose characters are all allowed, that does not  *)
(* end in a space or dot under WINDOWS and that is not a reserved name is  *)
(* returned unchanged, whatever the escape character.                      *)
C6_Original ==
    (/\ pc = "done"
     /\ AllAllowed(input, mode)
     /\ BitAnd(mode, WINDOWS) = WINDOWS => ~EndsWindowsEnd(input)
     /\ ~ReservedName(input, mode))
        => res = input

(* C6 amended: the same, for an input that also does not contain the       *)
(* escape character and, under WINDOWS, whose part before its last dot is  *)
(* not a Windows-reserved name.                                            *)
C6_FixedPoint ==
    (/\ pc = "done"
     /\ AllAllowed(input, mode)
     /\ BitAnd(mode, WINDOWS) = WINDOWS => ~EndsWindowsEnd(input)
     /\ ~ReservedName(input, mode)
     /\ Count(input, esc) = 0
     /\ (BitAnd(mode, WINDOWS) = WINDOWS /\ HasDot(input))
            => ~InReserved(WINDOWS_RESERVED, StemOf(input)))
        => res = input

C6_Witness ==
    /\ pc = "done"
    /\ mode = ALL
    /\ Len(input) >= 2
    /\ HasDot(input)
    /\ AllAllowed(input, mode)
    /\ ~EndsWindowsEnd(input)
    /\ Count(input, esc) = 0
    /\ res = input

(* C7: every occurrence of the escape character in the input is replaced   *)
(* in the output by the escape character followed by its hexadecimal code: *)
(* the output holds at least as many such sequences as the input holds     *)
(* escape characters, and past the leading marker no escape character      *)
(* stands in the output without two hexadecimal digits after it.           *)
C7_EscapeCharEscaped ==
    pc = "done" =>
        /\ CountSub(res, <<esc>> \o format_02X(esc)) >= Count(input, esc)
        /\ \A i \in 2..Len(res) :
               res[i] = esc =>
                   /\ i + 2 <= Len(res)
                   /\ IsHexChar(res[i + 1])
                   /\ IsHexChar(res[i + 2])

(* C8 as stated: a character at or beyond the end of the classification    *)
(* table is allowed under every mode, and the per-character stage copies   *)
(* it unchanged whatever the escape character.                             *)
C8_Original ==
    [][(pc = "chars" /\ chars # <<>> /\ Head(chars) >= Len(DISALLOWED_CHARS))
          => /\ \A m \in Modes : allowed(Head(chars), m)
             /\ res' = Append(res, Head(chars))]_vars

(* C8 amended: the same for every such character other than the escape     *)
(* character.                                                              *)
C8_Boundary ==
    [][(/\ pc = "chars"
        /\ chars # <<>>
        /\ Head(chars) >= Len(DISALLOWED_CHARS)
        /\ Head(chars) # esc)
          => /\ \A m \in Modes : allowed(Head(chars), m)
             /\ res' = Append(res, Head(chars))]_vars

C8_Witness ==
    /\ pc = "chars"
    /\ mode = ALL + WINDOWS_END
    /\ esc = 256
    /\ res # <<>>
    /\ Last(res) = Len(DISALLOWED_CHARS)
    /\ Len(chars) < Len(p)

(* C9: every escape sequence written, by the per-character stage or by the *)
(* trailing fixup, is the escape character followed by exactly two         *)
(* uppercase hexadecimal digits giving the character's code point.         *)
C9_TwoHexDigits ==
    [][/\ (/\ pc = "chars"
           /\ chars # <<>>
           /\ (Head(chars) = esc \/ ~allowed(Head(chars), mode)))
          => /\ Len(res') >= Len(res)
             /\ SubSeq(res', 1, Len(res)) = res
             /\ TwoDigitEscape(SubSeq(res', Len(res) + 1, Len(res')),
                               esc, Head(chars))
       /\ (/\ pc = "chars"
           /\ chars = <<>>
           /\ BitAnd(mode, WINDOWS) # 0
           /\ EndsWindowsEnd(res))
          => /\ Len(res') >= Len(res) - 1
             /\ SubSeq(res', 1, Len(res) - 1) = SubSeq(res, 1, Len(res) - 1)
             /\ TwoDigitEscape(SubSeq(res', Len(res), Len(res')),
                               esc, Last(res))]_vars

(* C10: with mode NONE the output is the input with each escape character  *)
(* replaced by its escape sequence and every other character copied: no    *)
(* disallowed-character escape, no reserved-name prefix, no trailing fixup.*)
C10_ModeNone ==
    (pc = "done" /\ mode = NONE) => res = OnlyEscEscaped(input, esc)

C10_Witness ==
    /\ pc = "done"
    /\ mode = NONE
    /\ Count(input, esc) > 0
    /\ EndsWindowsEnd(input)
    /\ \E i \in 1..Len(input) : ~allowed(input[i], ALL)
    /\ res # input

====
